---- MODULE Spec2Model ----
(***************************************************************************)
(* errorcat: panic-based error propagation for Go.                         *)
(*                                                                         *)
(* Catch raises a panic carrying a CatError, Recover (deferred) intercepts *)
(* whatever panic is in flight, annotates the captured error and stores it *)
(* in the caller's error variable; a Context ties Catch to one Recover.    *)
(*                                                                         *)
(* The model is the client goroutine and the goroutines Go starts, each    *)
(* with its call stack and the panic in flight, the caller-owned error     *)
(* variables, the contexts created so far and the channels Go made; for    *)
(* two goroutines that run Recover on one context at once, the statements  *)
(* of Recover are steps.  Go values are records [k, text, subs, n]:        *)
(*   k = "nil"                       the nil interface value               *)
(*   k = "bool", n = 0/1             false / true                          *)
(*   k = "int",  n                   an integer                            *)
(*   k = "str",  text                a string                              *)
(*   k = "fn",   text                an Annotator, named by its body       *)
(*   k = "new",  text                errors.New(text), a sentinel          *)
(*   k = "fmt",  text                fmt.Errorf without %w                 *)
(*   k = "wrap1", text, subs = <<e>>     fmt.Errorf with one %w            *)
(*   k = "wrap2", text, subs = <<a, b>>  fmt.Errorf with two %w            *)
(*   k = "cat",  subs = <<e>>        CatError{e}                           *)
(* Pointer identity of an error is the equality of its record.             *)
(***************************************************************************)
EXTENDS Integers, Sequences, FiniteSets, TLC

\* ------------------------------------------------------------------ bounds

\* Longest annotation chain handed to Recover or Guard.
MaxChain == 3
\* Deepest call stack of the client program.
MaxDepth == 2
\* Client operations in one run.
MaxOps == 4
\* Contexts created in one run.
MaxTokens == 1
\* Guard calls in one run of the client that only uses Guard.
MaxGuards == 2

\* ------------------------------------------------------------------ values

Val(k, text, subs, n) == [k |-> k, text |-> text, subs |-> subs, n |-> n]

Nil == Val("nil", "", <<>>, 0)
BoolV(b) == Val("bool", "", <<>>, IF b THEN 1 ELSE 0)
IntV(n) == Val("int", "", <<>>, n)
StrV(s) == Val("str", s, <<>>, 0)
Fn(name) == Val("fn", name, <<>>, 0)
\* A transform closing over context t (it calls t.Catch).
FnCtx(name, t) == Val("fn", name, <<>>, t)

\* errors.New(text)
New(text) == Val("new", text, <<>>, 0)

\* No panic in flight (the value recover() reports as nil).
NoPanic == Val("none", "", <<>>, 0)

IsError(v) == v.k \in {"new", "fmt", "wrap1", "wrap2", "cat"}

CatErr(e) == Val("cat", "", <<e>>, 0)

RECURSIVE ErrorText(_)
\* err.Error(): CatError reads the message of the error it wraps.
ErrorText(e) ==
    IF e.k = "cat" THEN ErrorText(e.subs[1]) ELSE e.text

\* errors.Unwrap for CatError
Unwrap(e) == e.subs[1]

Digit(d) == <<"0", "1", "2", "3", "4", "5", "6", "7", "8", "9">>[d + 1]

RECURSIVE IntText(_)
\* Decimal text of a non-negative integer, as %v prints it.
IntText(n) ==
    IF n < 10 THEN Digit(n) ELSE IntText(n \div 10) \o Digit(n % 10)

\* fmt's %v of a value.
Sprint(v) ==
    CASE IsError(v)   -> ErrorText(v)
      [] v.k = "str"  -> v.text
      [] v.k = "int"  -> IntText(v.n)
      [] v.k = "bool" -> IF v.n = 1 THEN "true" ELSE "false"
      [] v.k = "nil"  -> "<nil>"
      [] OTHER        -> "func"

\* fmt.Errorf("%v", p)
ErrorfV(p) == Val("fmt", Sprint(p), <<>>, 0)

\* fmt.Errorf("%v: %w", p, e) and fmt.Errorf("%s: %w", p, e)
ErrorfVW(p, e) == Val("wrap1", Sprint(p) \o ": " \o ErrorText(e), <<e>>, 0)

\* fmt.Errorf("%w: %w", a, b)
ErrorfWW(a, b) == Val("wrap2", ErrorText(a) \o ": " \o ErrorText(b), <<a, b>>, 0)

RECURSIVE Is(_, _)
\* errors.Is(err, target): equal to the target, or some error reached by
\* unwrapping is.
Is(err, target) ==
    \/ err = target
    \/ /\ IsError(err)
       /\ \E i \in 1..Len(err.subs) : Is(err.subs[i], target)

\* ---------------------------------------------------------------- sentinels

ErrUnknown == New("unknown error")
ErrBadCatch == New("bad catch usage")

MisuseCatch == StrV("[errorcat] Catch was called after recovery.")
MisuseRecover == StrV("[errorcat] Duplicate call to Recover")

\* The errors of the package's tests.
errTest == New("test-error")
errTest2 == New("test-error2")
serviceError == New("service error")
erasedError == New("the error was erased")
tryAgain == Val("wrap1", "service error: try again later", <<serviceError>>, 0)
\* CatError{}: the zero value, as code outside the package can write it.
zeroCatError == CatErr(Nil)

\* -------------------------------------------------------------------- Catch

\* Mutant of CatchError: the problem is formatted with %v, not wrapped.
CatchErrorProblemNotWrapped(cond, problem) ==
    CASE problem.k = "nil" -> CatErr(cond)
      [] OTHER             -> CatErr(ErrorfVW(problem, cond))

\* Mutant of CatchError: with no problem the condition itself is the panic
\* value, with no CatError around it.
CatchErrorBare(cond, problem) ==
    CASE IsError(problem)  -> CatErr(ErrorfWW(problem, cond))
      [] problem.k = "nil" -> cond
      [] OTHER             -> CatErr(ErrorfVW(problem, cond))

\* Catch with a non-nil error condition: the panic it raises.
CatchError(cond, problem) ==
    CASE IsError(problem)  -> CatErr(ErrorfWW(problem, cond))
      [] problem.k = "nil" -> CatErr(cond)
      [] OTHER             -> CatErr(ErrorfVW(problem, cond))

\* Mutant of CatchBool: a given problem triggers whatever the condition.
CatchBoolOnProblem(cond, problem) ==
    IF cond.n = 1 \/ problem.k # "nil" THEN
        CASE IsError(problem)  -> CatErr(problem)
          [] problem.k = "nil" -> CatErr(ErrUnknown)
          [] OTHER             -> CatErr(ErrorfV(problem))
    ELSE NoPanic

\* Mutant of CatchBool: no case for the omitted problem.
CatchBoolNoUnknown(cond, problem) ==
    IF cond.n = 1 THEN
        CASE IsError(problem)  -> CatErr(problem)
          [] OTHER             -> CatErr(ErrorfV(problem))
    ELSE NoPanic

\* Catch with a boolean condition: the panic it raises, NoPanic when it
\* returns.
CatchBool(cond, problem) ==
    IF cond.n = 1 THEN
        CASE IsError(problem)  -> CatErr(problem)
          [] problem.k = "nil" -> CatErr(ErrUnknown)
          [] OTHER             -> CatErr(ErrorfV(problem))
    ELSE NoPanic

\* Mutant of CatchInvalid: the call is ignored.
CatchInvalidIgnored(condition) == NoPanic

\* Catch with a condition that is neither a boolean nor an error.
CatchInvalid(condition) ==
    CatErr(Val("wrap1",
               ErrorText(ErrBadCatch) \o ": unknown catch condition type: "
                   \o Sprint(condition),
               <<ErrBadCatch>>, 0))

\* The free function Catch: the panic it raises, NoPanic when it returns.
\* `problem` is Nil when the argument is omitted.
Catch(condition, problem) ==
    IF condition.k = "nil" THEN NoPanic
    ELSE IF IsError(condition) THEN CatchError(condition, problem)
    ELSE IF condition.k = "bool" THEN CatchBool(condition, problem)
    ELSE CatchInvalid(condition)

\* Mutant of CtxCatch: the check of recoverCalled is missing.
CtxCatchUnchecked(toks, t, condition, problem) == Catch(condition, problem)

\* The tokens: <<[errorRef, recoverCalled], ...>>; a context is its index.
\* context.Catch: the misuse panic once Recover has run on the context,
\* otherwise what the free function does.
CtxCatch(toks, t, condition, problem) ==
    IF toks[t].recoverCalled THEN MisuseCatch ELSE Catch(condition, problem)

\* Mutant of OnRecover: recoverCalled is never set.
OnRecoverNoMark(toks, t) ==
    IF toks[t].recoverCalled
    THEN [raised |-> MisuseRecover, toks |-> toks]
    ELSE [raised |-> NoPanic, toks |-> toks]

\* context.OnRecover: the panic it raises (NoPanic when none) and the tokens
\* afterwards.
OnRecover(toks, t) ==
    IF toks[t].recoverCalled
    THEN [raised |-> MisuseRecover, toks |-> toks]
    ELSE [raised |-> NoPanic,
          toks |-> [toks EXCEPT ![t].recoverCalled = TRUE]]

\* context.ErrorRef: the reference the context was created with, 0 for nil.
ErrorRef(toks, t) == toks[t].errorRef

\* ------------------------------------------------------------------ Recover

\* An Annotator called with the captured error: the error it returns, or the
\* panic it raises.  The bodies are those of the package's tests, plus
\* handlers that throw, and handlers that call ct.Catch on the context a.n
\* (with a condition that triggers, with nil).
Annotator(a, captured, toks) ==
    CASE a.text = "keep" ->
            [err |-> captured, raised |-> NoPanic]
      [] a.text = "wrapThird" ->
            [err |-> Val("wrap1", "and third: " \o ErrorText(captured),
                         <<captured>>, 0),
             raised |-> NoPanic]
      [] a.text = "erase" ->
            [err |-> erasedError, raised |-> NoPanic]
      [] a.text = "clear" ->
            [err |-> Nil, raised |-> NoPanic]
      [] a.text = "throw" ->
            [err |-> captured,
             raised |-> Catch(BoolV(TRUE), StrV("handler failed"))]
      [] a.text = "fault" ->
            [err |-> captured, raised |-> StrV("handler fault")]
      [] a.text = "ctxThrow" ->
            [err |-> captured,
             raised |-> CtxCatch(toks, a.n, BoolV(TRUE), StrV("handler failed"))]
      [] a.text = "ctxCheck" ->
            [err |-> captured,
             raised |-> CtxCatch(toks, a.n, Nil, StrV("handler failed"))]

\* Mutant of Annotate: an error step is written into the text with %v and
\* is not wrapped.
AnnotateCompanionText(a, captured, toks) ==
    CASE a.k = "fn"  -> Annotator(a, captured, toks)
      [] OTHER       -> [err |-> ErrorfVW(a, captured), raised |-> NoPanic]

\* One annotation step applied to the captured error.
Annotate(a, captured, toks) ==
    CASE a.k = "fn"  -> Annotator(a, captured, toks)
      [] IsError(a)  -> [err |-> ErrorfWW(a, captured), raised |-> NoPanic]
      [] a.k = "str" -> [err |-> ErrorfVW(a, captured), raised |-> NoPanic]
      [] OTHER       -> [err |-> ErrorfVW(a, captured), raised |-> NoPanic]

RECURSIVE RunChainLastFirst(_, _, _, _, _)
\* Mutant of RunChain: the steps are taken from the last to the first.
RunChainLastFirst(captured, annotate, i, applied, toks) ==
    IF i > Len(annotate) THEN
        [err |-> captured, raised |-> NoPanic, applied |-> applied]
    ELSE
        LET j == Len(annotate) + 1 - i
            step == Annotate(annotate[j], captured, toks) IN
        IF step.raised # NoPanic THEN
            [err |-> captured, raised |-> step.raised,
             applied |-> Append(applied, j)]
        ELSE IF step.err = Nil THEN
            [err |-> Nil, raised |-> NoPanic, applied |-> Append(applied, j)]
        ELSE RunChainLastFirst(step.err, annotate, i + 1,
                               Append(applied, j), toks)

RECURSIVE RunChainSwallows(_, _, _, _, _)
\* Mutant of RunChain: a panic raised by a step is stopped and the loop ends.
RunChainSwallows(captured, annotate, i, applied, toks) ==
    IF i > Len(annotate) THEN
        [err |-> captured, raised |-> NoPanic, applied |-> applied]
    ELSE
        LET step == Annotate(annotate[i], captured, toks) IN
        IF step.raised # NoPanic THEN
            [err |-> captured, raised |-> NoPanic,
             applied |-> Append(applied, i)]
        ELSE IF step.err = Nil THEN
            [err |-> Nil, raised |-> NoPanic, applied |-> Append(applied, i)]
        ELSE RunChainSwallows(step.err, annotate, i + 1, Append(applied, i),
                              toks)

RECURSIVE RunChainNoBreak(_, _, _, _, _)
\* Mutant of RunChain: the loop goes on after a step returned nil.
RunChainNoBreak(captured, annotate, i, applied, toks) ==
    IF i > Len(annotate) THEN
        [err |-> captured, raised |-> NoPanic, applied |-> applied]
    ELSE
        LET step == Annotate(annotate[i], captured, toks) IN
        IF step.raised # NoPanic THEN
            [err |-> captured, raised |-> step.raised,
             applied |-> Append(applied, i)]
        ELSE RunChainNoBreak(step.err, annotate, i + 1, Append(applied, i),
                             toks)

RECURSIVE RunChain(_, _, _, _, _)
\* The annotation loop from step i on: the final error, the panic a step
\* raised (the loop ends there) and the indices of the steps that ran.
RunChain(captured, annotate, i, applied, toks) ==
    IF i > Len(annotate) THEN
        [err |-> captured, raised |-> NoPanic, applied |-> applied]
    ELSE
        LET step == Annotate(annotate[i], captured, toks) IN
        IF step.raised # NoPanic THEN
            [err |-> captured, raised |-> step.raised,
             applied |-> Append(applied, i)]
        ELSE IF step.err = Nil THEN
            [err |-> Nil, raised |-> NoPanic, applied |-> Append(applied, i)]
        ELSE RunChain(step.err, annotate, i + 1, Append(applied, i), toks)

\* Targets of Recover: a *error, a Context, nil, or any other value.
RefT(s) == [k |-> "ref", id |-> s]
CtxT(t) == [k |-> "ctx", id |-> t]
NilT == [k |-> "nil", id |-> 0]
OtherT == [k |-> "other", id |-> 0]

\* Mutant of Captured: every panic value that is not a CatError is turned
\* into a new error by its text.
CapturedFormatsAll(r) ==
    IF r.k = "cat" THEN r.subs[1] ELSE ErrorfV(r)

\* Mutant of Captured: the CatError wrapper is kept.
CapturedKeepsWrapper(r) ==
    IF IsError(r) THEN r ELSE ErrorfV(r)

\* The error recover()'s value r is captured as.
Captured(r) ==
    IF IsError(r) THEN (IF r.k = "cat" THEN r.subs[1] ELSE r)
    ELSE ErrorfV(r)

\* Mutant of Intercept: the panic is captured and goes on.
InterceptRethrows(r, current) ==
    [captured |-> IF r # NoPanic THEN Captured(r) ELSE current,
     inflight |-> r]

\* Mutant of Intercept: only the panics of Catch are stopped.
InterceptCatErrorOnly(r, current) ==
    [captured |-> IF r # NoPanic THEN Captured(r) ELSE current,
     inflight |-> IF r.k = "cat" THEN NoPanic ELSE r]

\* Mutant of Intercept: with no panic in flight the chain starts from
\* nothing.
InterceptIgnoresCurrent(r, current) ==
    [captured |-> IF r # NoPanic THEN Captured(r) ELSE Nil,
     inflight |-> NoPanic]

\* The capture: the error the chain starts from (the error variable's value
\* unless recover() yields a panic) and the panic still in flight after
\* recover() was called: none, whatever r was.
Intercept(r, current) ==
    [captured |-> IF r # NoPanic THEN Captured(r) ELSE current,
     inflight |-> NoPanic]

\* Mutant of Recover: the error variable is cleared before the context is
\* asked, so a rejected call has written it.
RecoverClearsFirst(ctparam, annotate, r, vars_, toks) ==
    LET ct == IF ctparam.k = "ctx" THEN ctparam.id ELSE 0
        rerr == CASE ctparam.k = "ref" -> ctparam.id
                  [] ctparam.k = "ctx" -> ErrorRef(toks, ctparam.id)
                  [] OTHER -> 0
        on == IF ct # 0 THEN OnRecover(toks, ct)
              ELSE [raised |-> NoPanic, toks |-> toks]
    IN
    IF on.raised # NoPanic THEN
        [raised |-> on.raised, recovered |-> FALSE,
         slots |-> IF rerr # 0 THEN [vars_ EXCEPT ![rerr] = Nil] ELSE vars_,
         toks |-> toks, applied |-> <<>>, rerr |-> rerr]
    ELSE
        LET got == Intercept(r, IF rerr # 0 THEN vars_[rerr] ELSE Nil)
            run == IF got.captured # Nil
                   THEN RunChain(got.captured, annotate, 1, <<>>, on.toks)
                   ELSE [err |-> Nil, raised |-> NoPanic, applied |-> <<>>]
        IN
        [raised |-> IF run.raised # NoPanic THEN run.raised ELSE got.inflight,
         recovered |-> r # NoPanic,
         slots |-> IF run.raised = NoPanic /\ rerr # 0
                   THEN [vars_ EXCEPT ![rerr] = run.err] ELSE vars_,
         toks |-> on.toks,
         applied |-> run.applied,
         rerr |-> rerr]

\* Mutant of Recover: the chain runs even when no error was captured.
RecoverAnnotatesNil(ctparam, annotate, r, vars_, toks) ==
    LET ct == IF ctparam.k = "ctx" THEN ctparam.id ELSE 0
        rerr == CASE ctparam.k = "ref" -> ctparam.id
                  [] ctparam.k = "ctx" -> ErrorRef(toks, ctparam.id)
                  [] OTHER -> 0
        on == IF ct # 0 THEN OnRecover(toks, ct)
              ELSE [raised |-> NoPanic, toks |-> toks]
    IN
    IF on.raised # NoPanic THEN
        [raised |-> on.raised, recovered |-> FALSE, slots |-> vars_,
         toks |-> toks, applied |-> <<>>, rerr |-> rerr]
    ELSE
        LET got == Intercept(r, IF rerr # 0 THEN vars_[rerr] ELSE Nil)
            run == RunChain(got.captured, annotate, 1, <<>>, on.toks)
        IN
        [raised |-> IF run.raised # NoPanic THEN run.raised ELSE got.inflight,
         recovered |-> r # NoPanic,
         slots |-> IF run.raised = NoPanic /\ rerr # 0
                   THEN [vars_ EXCEPT ![rerr] = run.err] ELSE vars_,
         toks |-> on.toks,
         applied |-> run.applied,
         rerr |-> rerr]

\* Mutant of Recover: the context is marked after the chain has run.
RecoverMarksLast(ctparam, annotate, r, vars_, toks) ==
    LET ct == IF ctparam.k = "ctx" THEN ctparam.id ELSE 0
        rerr == CASE ctparam.k = "ref" -> ctparam.id
                  [] ctparam.k = "ctx" -> ErrorRef(toks, ctparam.id)
                  [] OTHER -> 0
        on == IF ct # 0 THEN OnRecover(toks, ct)
              ELSE [raised |-> NoPanic, toks |-> toks]
    IN
    IF on.raised # NoPanic THEN
        [raised |-> on.raised, recovered |-> FALSE, slots |-> vars_,
         toks |-> toks, applied |-> <<>>, rerr |-> rerr]
    ELSE
        LET got == Intercept(r, IF rerr # 0 THEN vars_[rerr] ELSE Nil)
            run == IF got.captured # Nil
                   THEN RunChain(got.captured, annotate, 1, <<>>, toks)
                   ELSE [err |-> Nil, raised |-> NoPanic, applied |-> <<>>]
        IN
        [raised |-> IF run.raised # NoPanic THEN run.raised ELSE got.inflight,
         recovered |-> r # NoPanic,
         slots |-> IF run.raised = NoPanic /\ rerr # 0
                   THEN [vars_ EXCEPT ![rerr] = run.err] ELSE vars_,
         toks |-> on.toks,
         applied |-> run.applied,
         rerr |-> rerr]

\* Mutant of Recover: a target of any other type is refused with a panic.
RecoverStrictTarget(ctparam, annotate, r, vars_, toks) ==
    LET ct == IF ctparam.k = "ctx" THEN ctparam.id ELSE 0
        rerr == CASE ctparam.k = "ref" -> ctparam.id
                  [] ctparam.k = "ctx" -> ErrorRef(toks, ctparam.id)
                  [] OTHER -> 0
        on == IF ct # 0 THEN OnRecover(toks, ct)
              ELSE [raised |-> IF ctparam.k = "other"
                               THEN StrV("[errorcat] bad Recover target")
                               ELSE NoPanic,
                    toks |-> toks]
    IN
    IF on.raised # NoPanic THEN
        [raised |-> on.raised, recovered |-> FALSE, slots |-> vars_,
         toks |-> toks, applied |-> <<>>, rerr |-> rerr]
    ELSE
        LET got == Intercept(r, IF rerr # 0 THEN vars_[rerr] ELSE Nil)
            run == IF got.captured # Nil
                   THEN RunChain(got.captured, annotate, 1, <<>>, on.toks)
                   ELSE [err |-> Nil, raised |-> NoPanic, applied |-> <<>>]
        IN
        [raised |-> IF run.raised # NoPanic THEN run.raised ELSE got.inflight,
         recovered |-> r # NoPanic,
         slots |-> IF run.raised = NoPanic /\ rerr # 0
                   THEN [vars_ EXCEPT ![rerr] = run.err] ELSE vars_,
         toks |-> on.toks,
         applied |-> run.applied,
         rerr |-> rerr]

\* Recover(ctparam, annotate...) with r the value recover() yields in it
\* (NoPanic when no panic is in flight or the call is not deferred): the
\* panic it ends with, the error variables and the tokens afterwards.
Recover(ctparam, annotate, r, vars_, toks) ==
    LET ct == IF ctparam.k = "ctx" THEN ctparam.id ELSE 0
        rerr == CASE ctparam.k = "ref" -> ctparam.id
                  [] ctparam.k = "ctx" -> ErrorRef(toks, ctparam.id)
                  [] OTHER -> 0
        on == IF ct # 0 THEN OnRecover(toks, ct)
              ELSE [raised |-> NoPanic, toks |-> toks]
    IN
    IF on.raised # NoPanic THEN
        [raised |-> on.raised, recovered |-> FALSE, slots |-> vars_,
         toks |-> toks, applied |-> <<>>, rerr |-> rerr]
    ELSE
        LET got == Intercept(r, IF rerr # 0 THEN vars_[rerr] ELSE Nil)
            run == IF got.captured # Nil
                   THEN RunChain(got.captured, annotate, 1, <<>>, on.toks)
                   ELSE [err |-> Nil, raised |-> NoPanic, applied |-> <<>>]
        IN
        [raised |-> IF run.raised # NoPanic THEN run.raised ELSE got.inflight,
         recovered |-> r # NoPanic,
         slots |-> IF run.raised = NoPanic /\ rerr # 0
                   THEN [vars_ EXCEPT ![rerr] = run.err] ELSE vars_,
         toks |-> on.toks,
         applied |-> run.applied,
         rerr |-> rerr]

\* -------------------------------------------------------------------- state

VARIABLES
    stack,      \* per goroutine, the call stack: frames, innermost last
    panicking,  \* per goroutine, the panic in flight (NoPanic when none)
    slots,      \* the error variables Recover may be pointed at
    tokens,     \* the contexts created so far
    cause,      \* per goroutine, what raised the panic in flight
    result,     \* per goroutine, what the last Guard call returned
    ops,        \* client operations performed
    chans,      \* per spawned goroutine, the channel Go made for it
    rec,        \* per spawned goroutine, the Recover call it is in the
                \* middle of, where the statements of Recover are steps
    ev          \* the last step taken, with the inputs it was given

vars ==
    <<stack, panicking, slots, tokens, cause, result, ops, chans, rec, ev>>

\* The goroutines Go may start, and all goroutines.
Workers == {"go1", "go2"}
\* The goroutine of the client's outermost function.
Clients == {"main"}
Threads == Clients \cup Workers

\* The channel of a goroutine Go has not started yet.
NoChan == [phase |-> "none", sends |-> 0, val |-> Nil, recv |-> "no"]

\* A goroutine that is not inside a Recover call taken step by step.
NoRec ==
    [pc |-> "idle", tok |-> 0, chain |-> <<>>, r |-> NoPanic, val |-> Nil,
     raised |-> NoPanic, stored |-> FALSE]

\* A frame: a function of the client ("client", slot its named result
\* variable or 0), or Guard running fn ("guard", with Guard's own context
\* tok and result variable slot).
\* defers are the targets of the deferred Recover calls of the client code
\* in it.  The annotate arguments of a deferred Recover are first read when
\* it runs, and are drawn there.
Frame(kind, slot, tok) ==
    [kind |-> kind, defers |-> <<>>, exiting |-> FALSE, ret |-> Nil,
     slot |-> slot, tok |-> tok]

NoCause == [k |-> "none", cond |-> Nil, problem |-> Nil]
CatchCause(k, cond, problem) == [k |-> k, cond |-> cond, problem |-> problem]

Top(th) == stack[th][Len(stack[th])]
Depth(th) == Len(stack[th])

\* The client code of th is running (not unwinding, not returning).
Running(th) ==
    /\ Depth(th) > 0
    /\ panicking[th] = NoPanic
    /\ ~Top(th).exiting
    /\ ops < MaxOps

\* th is leaving its innermost function: by return, or by a panic.
Leaving(th) ==
    /\ Depth(th) > 0
    /\ (panicking[th] # NoPanic \/ Top(th).exiting)

SetTop(th, f) == [stack EXCEPT ![th][Len(stack[th])] = f]
Pop(th) == [stack EXCEPT ![th] = SubSeq(stack[th], 1, Len(stack[th]) - 1)]

Init ==
    /\ stack = [th \in Threads |->
            IF th = "main" THEN <<Frame("client", 1, 0)>> ELSE <<>>]
    /\ panicking = [th \in Threads |-> NoPanic]
    /\ slots = <<Nil>>
    /\ tokens = <<>>
    /\ cause = [th \in Threads |-> NoCause]
    /\ result = [th \in Threads |-> Nil]
    /\ ops = 0
    /\ chans = [w \in Workers |-> NoChan]
    /\ rec = [w \in Workers |-> NoRec]
    /\ ev = [op |-> "init"]

\* ------------------------------------------------------------ client inputs

RECURSIVE SeqsOfLen(_, _)
SeqsOfLen(S, n) ==
    IF n = 0 THEN {<<>>}
    ELSE {Append(c, a) : c \in SeqsOfLen(S, n - 1), a \in S}

SeqsUpTo(S, n) == UNION {SeqsOfLen(S, m) : m \in 0..n}

\* The inputs of the single-boundary runs (SpecOne): every kind of
\* condition, problem, foreign payload and annotation step.
Conds == {Nil, BoolV(FALSE), BoolV(TRUE), errTest, IntV(123)}
Problems == {Nil, StrV("problem"), errTest, errTest2, tryAgain, IntV(456)}
Payloads == {StrV("test error"), New("an error panic"), IntV(7)}
Returns == {Nil, errTest}
Steps ==
    {StrV("first"), StrV("second"), errTest2,
     Fn("wrapThird"), Fn("erase"), Fn("clear")}
Chains == SeqsUpTo(Steps, MaxChain)

\* The inputs of the free-running client (Spec): few values, every shape of
\* control flow.
CtlConds == {Nil, BoolV(FALSE), BoolV(TRUE), errTest, IntV(123)}
CtlProblems == {Nil, StrV("problem")}
CtlPayloads == {StrV("test error"), zeroCatError}
CtlChains(toks) ==
    {<<>>, <<IntV(123)>>, <<Fn("clear"), StrV("first")>>,
     <<Fn("keep"), Fn("throw")>>, <<Fn("fault")>>}
        \cup {<<FnCtx("ctxThrow", t)>> : t \in 1..Len(toks)}
\* The chains of the Recover calls that are not deferred.
CallChains == {<<>>, <<StrV("first")>>}
\* The error variable the client owns: the named result of its outermost
\* function.  The later ones are Guard's.
ClientSlots == {1}
Targets ==
    {NilT} \cup {RefT(s) : s \in ClientSlots}
        \cup {CtxT(t) : t \in 1..Len(tokens)}

\* ----------------------------------------------------------------- actions

\* ct := NewContext(errorRef); errorRef may be nil (0).
NewContext(th, errorRef) ==
    /\ Running(th)
    /\ Len(tokens) < MaxTokens
    /\ tokens' = Append(tokens, [errorRef |-> errorRef, recoverCalled |-> FALSE])
    /\ ops' = ops + 1
    /\ ev' = [op |-> "NewContext", th |-> th, tok |-> Len(tokens) + 1]
    /\ UNCHANGED <<stack, panicking, slots, cause, result, chans, rec>>

\* defer Recover(target, ...)
DeferRecover(th, target) ==
    /\ Running(th)
    /\ stack' = SetTop(th, [Top(th) EXCEPT !.defers = Append(@, target)])
    /\ ops' = ops + 1
    /\ ev' = [op |-> "defer", th |-> th, target |-> target]
    /\ UNCHANGED <<panicking, slots, tokens, cause, result, chans, rec>>

\* What a Recover call leaves in ev: its inputs, the state it started from
\* and what it computed.
RecoverEv(op, th, target, chain, pre, res) ==
    [op |-> op, th |-> th, target |-> target, chain |-> chain,
     r |-> panicking[th], cause |-> cause[th],
     start |-> IF res.rerr # 0 THEN pre[res.rerr] ELSE Nil,
     consumed |-> target.k = "ctx" /\ tokens[target.id].recoverCalled,
     rerr |-> res.rerr, applied |-> res.applied]

\* What raised the panic a Recover call ended with.
RecoverCause(res) ==
    IF res.raised = NoPanic THEN NoCause
    ELSE CatchCause(IF res.raised \in {MisuseCatch, MisuseRecover}
                    THEN "misuse" ELSE "chain", Nil, Nil)

\* Recover(target, chain...) called directly, not deferred: recover() in it
\* yields nil.
CallRecover(th, target, chains) ==
    /\ Running(th)
    /\ \E chain \in chains :
       LET res == Recover(target, chain, NoPanic, slots, tokens) IN
        /\ slots' = res.slots
        /\ tokens' = res.toks
        /\ panicking' = [panicking EXCEPT ![th] = res.raised]
        /\ cause' = [cause EXCEPT ![th] = RecoverCause(res)]
        /\ ev' = RecoverEv("CallRecover", th, target, chain, slots, res)
    /\ ops' = ops + 1
    /\ UNCHANGED <<stack, result, chans, rec>>

\* Catch(condition, problem), the free function.
CatchOp(th, condition, problem) ==
    /\ Running(th)
    /\ LET p == Catch(condition, problem) IN
        /\ panicking' = [panicking EXCEPT ![th] = p]
        /\ cause' = [cause EXCEPT ![th] =
                IF p = NoPanic THEN NoCause
                ELSE CatchCause("catch", condition, problem)]
    /\ ops' = ops + 1
    /\ ev' = [op |-> "Catch", th |-> th, cond |-> condition,
              problem |-> problem]
    /\ UNCHANGED <<stack, slots, tokens, result, chans, rec>>

\* ct.Catch(condition, problem)
CtxCatchOp(th, t, condition, problem) ==
    /\ Running(th)
    /\ LET p == CtxCatch(tokens, t, condition, problem) IN
        /\ panicking' = [panicking EXCEPT ![th] = p]
        /\ cause' = [cause EXCEPT ![th] =
                IF p = NoPanic THEN NoCause
                ELSE IF tokens[t].recoverCalled
                     THEN CatchCause("misuse", condition, problem)
                     ELSE CatchCause("catch", condition, problem)]
    /\ ops' = ops + 1
    /\ ev' = [op |-> "ctx.Catch", th |-> th, tok |-> t, cond |-> condition,
              problem |-> problem, consumed |-> tokens[t].recoverCalled]
    /\ UNCHANGED <<stack, slots, tokens, result, chans, rec>>

\* panic(payload) by code that is not this package's.
Panic(th, payload) ==
    /\ Running(th)
    /\ panicking' = [panicking EXCEPT ![th] = payload]
    /\ cause' = [cause EXCEPT ![th] = CatchCause("foreign", Nil, Nil)]
    /\ ops' = ops + 1
    /\ ev' = [op |-> "panic", th |-> th, payload |-> payload]
    /\ UNCHANGED <<stack, slots, tokens, result, chans, rec>>

\* The client calls one of its own functions.
Call(th) ==
    /\ Running(th)
    /\ Depth(th) < MaxDepth
    /\ stack' = [stack EXCEPT ![th] = Append(@, Frame("client", 0, 0))]
    /\ ops' = ops + 1
    /\ ev' = [op |-> "call", th |-> th]
    /\ UNCHANGED <<panicking, slots, tokens, cause, result, chans, rec>>

\* Guard(fn, ...) up to the call of fn: a fresh result variable rerr,
\* ct := NewContext(&rerr), defer Recover(ct, ...), then fn(ct) runs.
EnterGuard(th, maxDepth, maxTokens) ==
    /\ Running(th)
    /\ Depth(th) < maxDepth
    /\ Len(tokens) < maxTokens
    /\ slots' = Append(slots, Nil)
    /\ tokens' = Append(tokens,
            [errorRef |-> Len(slots) + 1, recoverCalled |-> FALSE])
    /\ stack' = [stack EXCEPT ![th] =
            Append(@, Frame("guard", Len(slots) + 1, Len(tokens) + 1))]
    /\ ops' = ops + 1
    /\ ev' = [op |-> "Guard", th |-> th, tok |-> Len(tokens) + 1]
    /\ UNCHANGED <<panicking, cause, result, rec>>

\* Guard called within the bounds of the free-running client.
GuardEnter(th) == EnterGuard(th, MaxDepth, MaxTokens) /\ UNCHANGED chans

\* return v: the named result (if the function has one) is set to v and the
\* function starts to leave; its deferred calls run next.  fn's result is
\* kept for Guard.
Return(th, v) ==
    /\ Running(th)
    /\ (Top(th).slot = 0 => v = Nil)
    /\ stack' = SetTop(th, [Top(th) EXCEPT !.exiting = TRUE, !.ret = v])
    /\ slots' = IF Top(th).kind = "client" /\ Top(th).slot # 0
                THEN [slots EXCEPT ![Top(th).slot] = v] ELSE slots
    /\ ops' = ops + 1
    /\ ev' = [op |-> "return", th |-> th, v |-> v]
    /\ UNCHANGED <<panicking, tokens, cause, result, chans, rec>>

\* The innermost pending deferred Recover of the function being left runs,
\* with the panic in flight (if any) as recover()'s value.  A panic it
\* intercepts ends there and the function returns normally.
RunDeferred(th, chains) ==
    /\ Leaving(th)
    /\ Top(th).defers # <<>>
    /\ \E chain \in chains :
       LET ds == Top(th).defers
           target == ds[Len(ds)]
           res == Recover(target, chain, panicking[th], slots, tokens)
       IN
        /\ slots' = res.slots
        /\ tokens' = res.toks
        /\ panicking' = [panicking EXCEPT ![th] = res.raised]
        /\ cause' = [cause EXCEPT ![th] = RecoverCause(res)]
        /\ stack' = SetTop(th, [Top(th) EXCEPT
                !.defers = SubSeq(ds, 1, Len(ds) - 1), !.exiting = TRUE])
        /\ ev' = RecoverEv("Recover", th, target, chain, slots, res)
    /\ UNCHANGED <<result, ops, chans, rec>>

\* A client function has left: its caller goes on, or unwinds in turn when
\* a panic is still in flight.
FrameExit(th) ==
    /\ Leaving(th)
    /\ Top(th).kind = "client"
    /\ Top(th).defers = <<>>
    /\ stack' = Pop(th)
    /\ ev' = [op |-> "exit", th |-> th]
    /\ UNCHANGED <<panicking, slots, tokens, cause, result, ops, chans, rec>>

\* Mutant of GuardExit: when fn returns, Guard returns what fn returned and
\* its Recover does not run.
GuardExitSkipsRecover(th, chains) ==
    /\ Leaving(th)
    /\ Top(th).kind = "guard"
    /\ Top(th).defers = <<>>
    /\ panicking[th] = NoPanic
    /\ slots' = [slots EXCEPT ![Top(th).slot] = Top(th).ret]
    /\ result' = [result EXCEPT ![th] = Top(th).ret]
    /\ stack' = Pop(th)
    /\ ev' = [op |-> "GuardReturn", th |-> th]
    /\ UNCHANGED <<panicking, tokens, cause, ops, chans, rec>>

\* Mutant of GuardExit: an error fn returned is returned as it is, the chain
\* runs for a panic only.
GuardExitReturnsAsIs(th, chains) ==
    /\ Leaving(th)
    /\ Top(th).kind = "guard"
    /\ Top(th).defers = <<>>
    /\ \E chain \in chains :
       LET f == Top(th)
           set == IF panicking[th] = NoPanic
                  THEN [slots EXCEPT ![f.slot] = f.ret] ELSE slots
           res == Recover(CtxT(f.tok),
                          IF panicking[th] = NoPanic THEN <<>> ELSE chain,
                          panicking[th], set, tokens)
       IN
        /\ slots' = res.slots
        /\ tokens' = res.toks
        /\ panicking' = [panicking EXCEPT ![th] = res.raised]
        /\ cause' = [cause EXCEPT ![th] = RecoverCause(res)]
        /\ result' = [result EXCEPT ![th] =
                IF res.raised = NoPanic THEN res.slots[f.slot] ELSE @]
        /\ stack' = Pop(th)
        /\ ev' = RecoverEv("GuardExit", th, CtxT(f.tok), chain, set, res)
    /\ UNCHANGED <<ops, chans, rec>>

\* Guard from the return of fn on: rerr is set to what fn returned (when it
\* returned), the deferred Recover(ct, chain...) runs, and Guard returns rerr
\* or leaves by the panic Recover raised.
GuardExit(th, chains) ==
    /\ Leaving(th)
    /\ Top(th).kind = "guard"
    /\ Top(th).defers = <<>>
    /\ \E chain \in chains :
       LET f == Top(th)
           set == IF panicking[th] = NoPanic
                  THEN [slots EXCEPT ![f.slot] = f.ret] ELSE slots
           res == Recover(CtxT(f.tok), chain, panicking[th], set, tokens)
       IN
        /\ slots' = res.slots
        /\ tokens' = res.toks
        /\ panicking' = [panicking EXCEPT ![th] = res.raised]
        /\ cause' = [cause EXCEPT ![th] = RecoverCause(res)]
        /\ result' = [result EXCEPT ![th] =
                IF res.raised = NoPanic THEN res.slots[f.slot] ELSE @]
        /\ stack' = Pop(th)
        /\ ev' = RecoverEv("GuardExit", th, CtxT(f.tok), chain, set, res)
    /\ UNCHANGED <<ops, chans, rec>>

\* The free-running client.
Next ==
    \E th \in Clients :
        \/ \E s \in 0..Len(slots) : NewContext(th, s)
        \/ \E t \in Targets : DeferRecover(th, t)
        \/ \E t \in Targets : CallRecover(th, t, CallChains)
        \/ \E c \in CtlConds, p \in CtlProblems : CatchOp(th, c, p)
        \/ \E t \in 1..Len(tokens), c \in CtlConds, p \in CtlProblems :
                CtxCatchOp(th, t, c, p)
        \/ \E p \in CtlPayloads : Panic(th, p)
        \/ Call(th)
        \/ GuardEnter(th)
        \/ \E v \in Returns : Return(th, v)
        \/ RunDeferred(th, CtlChains(tokens))
        \/ FrameExit(th)
        \/ GuardExit(th, CtlChains(tokens))

Spec == Init /\ [][Next]_vars

\* The single-boundary client: its outermost function registers one
\* boundary first thing (a deferred Recover, or Guard around the rest), then
\* throws, faults or returns.
OneTargets == {RefT(1), NilT, OtherT}

\* The boundary is registered and has not run yet.
Pending == ops \in 1..(MaxOps - 2) /\ \A t \in 1..Len(tokens) : ~tokens[t].recoverCalled

NextOne ==
    \E th \in Clients :
        \/ \E t \in OneTargets : ops = 0 /\ DeferRecover(th, t)
        \/ ops = 0 /\ GuardEnter(th)
        \/ \E c \in Conds, p \in Problems : Pending /\ CatchOp(th, c, p)
        \/ \E t \in 1..Len(tokens), c \in Conds, p \in Problems :
                Pending /\ CtxCatchOp(th, t, c, p)
        \/ \E p \in Payloads : Pending /\ Panic(th, p)
        \/ \E v \in Returns : Pending /\ Return(th, v)
        \/ RunDeferred(th, Chains)
        \/ FrameExit(th)
        \/ GuardExit(th, Chains)

SpecOne == Init /\ [][NextOne]_vars

\* ----------------------------------------------------------------------- Go

\* The annotate arguments handed to Go, and the problems fn throws.
GoChains == {<<>>, <<StrV("test")>>, <<Fn("clear")>>}
GoProblems == {Nil, StrV("whoops"), errTest2}

\* The goroutines Go has started, and the one it starts next.
Started == {w \in Workers : chans[w].phase # "none"}
NextWorker == IF "go1" \notin Started THEN "go1" ELSE "go2"

\* th is blocked in <-ch: no value was delivered yet.
Receiving(th) == th = "main" /\ \E w \in Workers : chans[w].recv = "waiting"

\* w runs the function handed to Go, inside Guard.
InFn(w) == Depth(w) > 0 /\ Top(w).kind = "guard"

\* w has Guard's result and is at the send statement.
AtSend(w) ==
    /\ chans[w].phase = "guard"
    /\ Depth(w) = 1
    /\ panicking[w] = NoPanic

\* ch := Go(fn, annotate...): the channel is made (unbuffered), the
\* goroutine is started, and Go returns the channel.
Go(th) ==
    /\ Running(th)
    /\ ~Receiving(th)
    /\ Started # Workers
    /\ Cardinality(Started) < MaxTokens
    /\ chans' = [chans EXCEPT ![NextWorker] =
            [phase |-> "start", sends |-> 0, val |-> Nil, recv |-> "no"]]
    /\ stack' = [stack EXCEPT ![NextWorker] = <<Frame("go", 0, 0)>>]
    /\ ops' = ops + 1
    /\ ev' = [op |-> "Go", th |-> th, w |-> NextWorker]
    /\ UNCHANGED <<panicking, slots, tokens, cause, result, rec>>

\* The goroutine's first step: it calls Guard(fn, annotate...).
GoGuard(w) ==
    /\ chans[w].phase = "start"
    /\ EnterGuard(w, MaxDepth, MaxTokens)
    /\ chans' = [chans EXCEPT ![w].phase = "guard"]

\* Mutant of GoSend: the goroutine stays at the send statement.
GoSendAgain(w) ==
    /\ AtSend(w)
    /\ chans[w].recv \in {"waiting", "got"}
    /\ chans' = [chans EXCEPT ![w].sends = @ + 1, ![w].val = result[w],
                              ![w].recv = "got"]
    /\ ev' = [op |-> "send", th |-> w, val |-> result[w]]
    /\ UNCHANGED <<stack, panicking, slots, tokens, cause, result, ops, rec>>

\* Mutant of GoSend: nil is sent, whatever Guard returned.
GoSendNil(w) ==
    /\ AtSend(w)
    /\ chans[w].recv = "waiting"
    /\ chans' = [chans EXCEPT ![w] =
            [phase |-> "done", sends |-> @.sends + 1, val |-> Nil,
             recv |-> "got"]]
    /\ stack' = [stack EXCEPT ![w] = <<>>]
    /\ ev' = [op |-> "send", th |-> w, val |-> Nil]
    /\ UNCHANGED <<panicking, slots, tokens, cause, result, ops, rec>>

\* Mutant of GoSend: the goroutine ends without sending.
GoSendDrops(w) ==
    /\ AtSend(w)
    /\ chans[w].recv = "waiting"
    /\ chans' = [chans EXCEPT ![w].phase = "done"]
    /\ stack' = [stack EXCEPT ![w] = <<>>]
    /\ ev' = [op |-> "send", th |-> w, val |-> result[w]]
    /\ UNCHANGED <<panicking, slots, tokens, cause, result, ops, rec>>

\* ch <- Guard(fn, annotate...): the send on the unbuffered channel takes
\* place when a receiver is waiting; the goroutine then ends.
GoSend(w) ==
    /\ AtSend(w)
    /\ chans[w].recv = "waiting"
    /\ chans' = [chans EXCEPT ![w] =
            [phase |-> "done", sends |-> @.sends + 1, val |-> result[w],
             recv |-> "got"]]
    /\ stack' = [stack EXCEPT ![w] = <<>>]
    /\ ev' = [op |-> "send", th |-> w, val |-> result[w]]
    /\ UNCHANGED <<panicking, slots, tokens, cause, result, ops, rec>>

\* <-ch by the caller of Go: it waits until the goroutine sends.
Receive(th, w) ==
    /\ Depth(th) > 0
    /\ panicking[th] = NoPanic
    /\ ~Top(th).exiting
    /\ ~Receiving(th)
    /\ chans[w].phase # "none"
    /\ chans[w].recv = "no"
    /\ chans' = [chans EXCEPT ![w].recv = "waiting"]
    /\ ev' = [op |-> "receive", th |-> th, w |-> w]
    /\ UNCHANGED <<stack, panicking, slots, tokens, cause, result, ops, rec>>

\* The client of Go: it starts goroutines, receives from their channels or
\* returns without receiving; fn throws, panics or returns.
NextGo ==
    \/ Go("main")
    \/ \E w \in Workers : Receive("main", w)
    \/ ~Receiving("main") /\ Return("main", Nil)
    \/ FrameExit("main")
    \/ \E w \in Workers :
        \/ GoGuard(w)
        \/ \E c \in CtlConds, p \in GoProblems :
                InFn(w) /\ CatchOp(w, c, p)
        \/ \E c \in CtlConds, p \in GoProblems :
                InFn(w) /\ CtxCatchOp(w, Top(w).tok, c, p)
        \/ \E p \in Payloads : InFn(w) /\ Panic(w, p)
        \/ \E v \in Returns : InFn(w) /\ Return(w, v)
        \/ GuardExit(w, GoChains)
        \/ GoSend(w)

SpecGo == Init /\ [][NextGo]_vars

\* The function handed to Go has ended in w (by return or by a panic) and
\* the goroutine has not sent yet.
FnEnded(w) ==
    /\ chans[w].phase = "guard"
    /\ (Depth(w) = 1 \/ Leaving(w))

\* The Go scheduler runs every goroutine that can run: a goroutine that
\* has left fn goes on through Guard's deferred Recover, and a send whose
\* receiver is waiting takes place.
SpecGoFair ==
    /\ Init
    /\ [][NextGo]_vars
    /\ \A w \in Workers :
        /\ WF_vars(GuardExit(w, GoChains))
        /\ WF_vars(GoSend(w))

\* ---------------------------------------------------------------- Guard only

\* The annotate arguments of the client that only uses Guard: its handlers
\* do not hold a context.
GuardChains ==
    {<<>>, <<StrV("first")>>, <<Fn("clear")>>, <<Fn("keep"), Fn("throw")>>,
     <<Fn("fault")>>}

\* The contexts of the Guard calls whose fn is still executing in th.
OpenTokens(th) ==
    {stack[th][i].tok : i \in {j \in 1..Depth(th) : stack[th][j].kind = "guard"}}

\* The client that never calls NewContext or Recover: it calls Guard, one
\* inside the other or one after the other, and fn uses the contexts of the
\* Guard calls it runs in.
NextGuard ==
    \E th \in Clients :
        \/ EnterGuard(th, MaxGuards + 1, MaxGuards) /\ UNCHANGED chans
        \/ \E c \in CtlConds, p \in CtlProblems :
                InFn(th) /\ CatchOp(th, c, p)
        \/ \E t \in OpenTokens(th), c \in CtlConds, p \in CtlProblems :
                InFn(th) /\ CtxCatchOp(th, t, c, p)
        \/ \E p \in CtlPayloads : InFn(th) /\ Panic(th, p)
        \/ \E v \in Returns : Return(th, v)
        \/ GuardExit(th, GuardChains)
        \/ FrameExit(th)

SpecGuard == Init /\ [][NextGuard]_vars

\* ------------------------------------------------------------ contexts only

\* ref := ct.ErrorRef(), called by the client.
ErrorRefOp(th, t) ==
    /\ Running(th)
    /\ ops' = ops + 1
    /\ ev' = [op |-> "ErrorRef", th |-> th, tok |-> t,
              ref |-> ErrorRef(tokens, t)]
    /\ UNCHANGED <<stack, panicking, slots, tokens, cause, result, chans, rec>>

\* The chains of the deferred Recover calls of that client: those of the
\* free-running client, and handlers that call ct.Catch(nil, ...).
TokenChains(toks) ==
    CtlChains(toks) \cup {<<FnCtx("ctxCheck", t)>> : t \in 1..Len(toks)}

\* The client that works through contexts it made itself: it creates them,
\* defers or calls Recover on them (more than once, too), throws through
\* them, reads their reference, panics or returns.  It also hands Recover
\* nil and a value that is none of *error, Context and nil.
NextToken ==
    \E th \in Clients :
        \/ \E s \in 0..Len(slots) : NewContext(th, s)
        \/ \E t \in 1..Len(tokens) : DeferRecover(th, CtxT(t))
        \/ \E t \in 1..Len(tokens) : CallRecover(th, CtxT(t), CallChains)
        \/ \E t \in {NilT, OtherT} : DeferRecover(th, t)
        \/ \E t \in 1..Len(tokens), c \in CtlConds, p \in CtlProblems :
                CtxCatchOp(th, t, c, p)
        \/ \E t \in 1..Len(tokens) : ErrorRefOp(th, t)
        \/ \E p \in CtlPayloads : Panic(th, p)
        \/ \E v \in Returns : Return(th, v)
        \/ RunDeferred(th, TokenChains(tokens))
        \/ FrameExit(th)

SpecToken == Init /\ [][NextToken]_vars

\* ------------------------------------------------- two Recover calls at once

\* Two goroutines of the client share a context and each has deferred
\* Recover(ct, chain...).  The statements of Recover are steps here, and the
\* steps of the two goroutines interleave: recoverCalled and *rerr are read
\* and written with no lock.

\* What is in flight when the deferred Recover of a goroutine runs.
RacePanics == {NoPanic, Catch(errTest, Nil), Catch(errTest2, Nil)}

\* An interface value left by two stores that overlap: one word of each.
Torn(a, b) == Val("torn", "", <<a, b>>, 0)

\* The other goroutine.
Other(w) == CHOOSE o \in Workers : o # w

\* The function of goroutine w ends and its deferred Recover(ct, chain...)
\* begins, with r in flight.
RaceEnter(w, t, chain, r) ==
    /\ rec[w].pc = "idle"
    /\ rec' = [rec EXCEPT ![w] =
            [pc |-> "check", tok |-> t, chain |-> chain, r |-> r,
             val |-> Nil, raised |-> NoPanic, stored |-> FALSE]]
    /\ ev' = [op |-> "race.enter", th |-> w, tok |-> t]
    /\ UNCHANGED <<stack, panicking, slots, tokens, cause, result, ops, chans>>

\* Mutant of RaceCheck: the flag is tested and set in one step.
RaceCheckAtomic(w) ==
    /\ rec[w].pc = "check"
    /\ LET on == OnRecover(tokens, rec[w].tok) IN
        /\ rec' = [rec EXCEPT ![w].pc =
                        IF on.raised # NoPanic THEN "done" ELSE "capture",
                    ![w].raised = on.raised]
        /\ tokens' = on.toks
    /\ ev' = [op |-> "race.check", th |-> w, tok |-> rec[w].tok]
    /\ UNCHANGED <<stack, panicking, slots, cause, result, ops, chans>>

\* OnRecover, the test: if c.recoverCalled { panic(...) }.
RaceCheck(w) ==
    /\ rec[w].pc = "check"
    /\ LET on == OnRecover(tokens, rec[w].tok) IN
        rec' = [rec EXCEPT ![w].pc =
                    IF on.raised # NoPanic THEN "done" ELSE "mark",
                ![w].raised = on.raised]
    /\ ev' = [op |-> "race.check", th |-> w, tok |-> rec[w].tok]
    /\ UNCHANGED <<stack, panicking, slots, tokens, cause, result, ops, chans>>

\* OnRecover, the assignment: c.recoverCalled = true.
RaceMark(w) ==
    /\ rec[w].pc = "mark"
    /\ tokens' = [tokens EXCEPT ![rec[w].tok].recoverCalled = TRUE]
    /\ rec' = [rec EXCEPT ![w].pc = "capture"]
    /\ ev' = [op |-> "race.mark", th |-> w, tok |-> rec[w].tok]
    /\ UNCHANGED <<stack, panicking, slots, cause, result, ops, chans>>

\* Recover from the read of *rerr to the end of the annotation loop: the
\* error to store, or the panic a step raised.
RaceCapture(w) ==
    /\ rec[w].pc = "capture"
    /\ LET rerr == ErrorRef(tokens, rec[w].tok)
           got == Intercept(rec[w].r, IF rerr # 0 THEN slots[rerr] ELSE Nil)
           run == IF got.captured # Nil
                  THEN RunChain(got.captured, rec[w].chain, 1, <<>>, tokens)
                  ELSE [err |-> Nil, raised |-> NoPanic, applied |-> <<>>]
       IN
        rec' = [rec EXCEPT ![w].pc =
                    IF run.raised = NoPanic /\ rerr # 0
                    THEN "store" ELSE "done",
                ![w].val = run.err,
                ![w].raised = run.raised]
    /\ ev' = [op |-> "race.capture", th |-> w, tok |-> rec[w].tok]
    /\ UNCHANGED <<stack, panicking, slots, tokens, cause, result, ops, chans>>

\* What a store of val by w may leave in the variable: val, or a torn value
\* when the other goroutine is storing another value in it at that moment.
StoreOutcomes(w) ==
    LET o == rec[Other(w)] IN
    {rec[w].val} \cup
        IF /\ o.pc = "store"
           /\ ErrorRef(tokens, o.tok) = ErrorRef(tokens, rec[w].tok)
           /\ o.val # rec[w].val
        THEN {Torn(rec[w].val, o.val), Torn(o.val, rec[w].val)}
        ELSE {}

\* *rerr = captured
RaceStore(w) ==
    /\ rec[w].pc = "store"
    /\ \E v \in StoreOutcomes(w) :
        slots' = [slots EXCEPT ![ErrorRef(tokens, rec[w].tok)] = v]
    /\ rec' = [rec EXCEPT ![w].pc = "done", ![w].stored = TRUE]
    /\ ev' = [op |-> "race.store", th |-> w, tok |-> rec[w].tok]
    /\ UNCHANGED <<stack, panicking, tokens, cause, result, ops, chans>>

\* The client makes contexts and its goroutines run Recover on them.
NextRace ==
    \/ \E s \in 0..Len(slots) : NewContext("main", s)
    \/ \E w \in Workers, t \in 1..Len(tokens), chain \in CallChains,
          r \in RacePanics : RaceEnter(w, t, chain, r)
    \/ \E w \in Workers :
        \/ RaceCheck(w)
        \/ RaceMark(w)
        \/ RaceCapture(w)
        \/ RaceStore(w)

SpecRace == Init /\ [][NextRace]_vars

\* ------------------------------------------------------------------- claims

\* The last step was a Recover call: deferred, direct, or Guard's own.
IsRecoverEv == ev.op \in {"Recover", "CallRecover", "GuardExit"}
IsCatchEv == ev.op \in {"Catch", "ctx.Catch"}

\* No step of the chain raises a panic of its own.
NonAborting(chain) ==
    \A i \in 1..Len(chain) :
        ~(chain[i].k = "fn" /\ chain[i].text \in {"throw", "fault", "ctxThrow"})

\* No step of the chain replaces or drops the error it is given, or raises.
Preserving(chain) ==
    \A i \in 1..Len(chain) :
        chain[i].k = "fn" => chain[i].text \in {"keep", "wrapThird"}

\* C1: ct.Catch on a context whose Recover has run raises the panic "Catch
\* was called after recovery", whatever the condition and the problem: it
\* neither returns nor raises a CatError.
C1_CatchAfterRecovery ==
    (ev.op = "ctx.Catch" /\ tokens[ev.tok].recoverCalled)
        => panicking[ev.th] = MisuseCatch

C1_Witness ==
    /\ ev.op = "ctx.Catch"
    /\ tokens[ev.tok].recoverCalled
    /\ ev.cond = Nil
    /\ panicking[ev.th] = MisuseCatch

\* C2: the first Recover on a context does not raise the duplicate-Recover
\* panic, marks the context, and ends with no panic in flight unless a step
\* of its own chain raised one; every later Recover on the context ends with
\* the duplicate-Recover panic, a panic in flight or not.
C2_DuplicateRecover ==
    (IsRecoverEv /\ ev.target.k = "ctx") =>
        IF ev.consumed
        THEN panicking[ev.th] = MisuseRecover
        ELSE /\ panicking[ev.th] # MisuseRecover
             /\ tokens[ev.target.id].recoverCalled
             /\ (NonAborting(ev.chain) => panicking[ev.th] = NoPanic)

C2_Witness ==
    /\ ev.op = "Recover"
    /\ ev.target.k = "ctx"
    /\ ev.consumed
    /\ ev.r # NoPanic
    /\ panicking[ev.th] = MisuseRecover

\* C3: no Recover intercepts a misuse panic (duplicate Recover, Catch after
\* recovery): after a Recover that ran with one in flight, a panic is still
\* in flight.
C3_MisuseNeverAbsorbed ==
    (IsRecoverEv /\ ev.cause.k = "misuse"
        /\ ev.r \in {MisuseCatch, MisuseRecover})
        => panicking[ev.th] # NoPanic

\* C4: a deferred Recover (on a *error, a context not yet marked, or nil)
\* that runs with a panic in flight and a chain whose steps raise nothing
\* ends with no panic in flight, and the function goes on to return.
C4_RecoverEndsAbort ==
    (ev.op \in {"Recover", "GuardExit"} /\ ev.r # NoPanic /\ ~ev.consumed
        /\ NonAborting(ev.chain))
        => /\ panicking[ev.th] = NoPanic
           /\ (ev.op = "Recover" => Top(ev.th).exiting)

C4_Witness ==
    /\ ev.op = "Recover"
    /\ ev.target = NilT
    /\ ev.r = StrV("test error")
    /\ panicking[ev.th] = NoPanic
    /\ Top(ev.th).exiting

\* The error a Catch call throws without annotation: Catch(E), Catch(true, E).
Unannotated(c) ==
    IF IsError(c.cond) /\ c.problem = Nil THEN c.cond
    ELSE IF c.cond = BoolV(TRUE) /\ IsError(c.problem) THEN c.problem
    ELSE Nil

\* C5: an error E thrown by Catch(E) or Catch(true, E) and intercepted by a
\* Recover with no annotation is stored as E itself, and Guard returns E
\* itself: no CatError around it, no new wrapper.
C5_ThrownAsIs ==
    (IsRecoverEv /\ ev.cause.k = "catch" /\ ev.chain = <<>>
        /\ Unannotated(ev.cause) # Nil)
        => /\ (ev.rerr # 0 => slots[ev.rerr] = Unannotated(ev.cause))
           /\ (ev.op = "GuardExit" => result[ev.th] = Unannotated(ev.cause))

C5_Witness ==
    /\ ev.op = "GuardExit"
    /\ ev.chain = <<>>
    /\ ev.cause = CatchCause("catch", BoolV(TRUE), tryAgain)
    /\ result[ev.th] = tryAgain

\* C6: Catch, and ct.Catch on a context not yet marked, with condition nil
\* or false returns: no panic is raised, and the contexts, the error
\* variables and the call stack stay as they were.
C6_NoTrigger ==
    [][(/\ ev'.op \in {"Catch", "ctx.Catch"}
        /\ ev'.cond \in {Nil, BoolV(FALSE)}
        /\ (ev'.op = "ctx.Catch" => ~tokens[ev'.tok].recoverCalled))
        => /\ panicking'[ev'.th] = NoPanic
           /\ panicking' = panicking
           /\ tokens' = tokens
           /\ slots' = slots
           /\ stack' = stack]_vars

C6_Witness ==
    /\ ev.op = "ctx.Catch"
    /\ ev.cond = BoolV(FALSE)
    /\ ev.problem = errTest2
    /\ ~tokens[ev.tok].recoverCalled
    /\ panicking[ev.th] = NoPanic

\* A condition Catch does not accept: not nil, not a boolean, not an error.
Invalid(c) == c.k \notin {"nil", "bool"} /\ ~IsError(c)

\* C7: Catch with a condition that is neither nil, a boolean nor an error
\* raises a CatError matching ErrBadCatch, and the error a Recover stores
\* for it (through a chain that keeps the error it is given) matches
\* ErrBadCatch.
C7_BadCatch ==
    /\ (IsCatchEv /\ Invalid(ev.cond)
            /\ (ev.op = "ctx.Catch" => ~tokens[ev.tok].recoverCalled))
        => /\ panicking[ev.th].k = "cat"
           /\ Is(panicking[ev.th], ErrBadCatch)
    /\ (IsRecoverEv /\ ev.cause.k = "catch" /\ Invalid(ev.cause.cond)
            /\ Preserving(ev.chain) /\ ev.rerr # 0)
        => Is(slots[ev.rerr], ErrBadCatch)

C7_Witness ==
    /\ IsRecoverEv
    /\ ev.cause = CatchCause("catch", IntV(123), Nil)
    /\ ev.chain = <<StrV("first")>>
    /\ ev.rerr # 0
    /\ Is(slots[ev.rerr], ErrBadCatch)
    /\ ErrorText(slots[ev.rerr])
        = "first: bad catch usage: unknown catch condition type: 123"

\* C8: Catch(true) with no problem raises CatError{ErrUnknown}, and the
\* error a Recover stores for it (through a chain that keeps the error it is
\* given) matches ErrUnknown and has a non-empty text.
C8_UnknownSentinel ==
    /\ (IsCatchEv /\ ev.cond = BoolV(TRUE) /\ ev.problem = Nil
            /\ (ev.op = "ctx.Catch" => ~tokens[ev.tok].recoverCalled))
        => panicking[ev.th] = CatErr(ErrUnknown)
    /\ (IsRecoverEv /\ ev.cause = CatchCause("catch", BoolV(TRUE), Nil)
            /\ Preserving(ev.chain) /\ ev.rerr # 0)
        => /\ Is(slots[ev.rerr], ErrUnknown)
           /\ ErrorText(slots[ev.rerr]) # ""

C8_Witness ==
    /\ IsRecoverEv
    /\ ev.cause = CatchCause("catch", BoolV(TRUE), Nil)
    /\ ev.chain = <<>>
    /\ ev.rerr # 0
    /\ slots[ev.rerr] = ErrUnknown
    /\ ErrorText(slots[ev.rerr]) = "unknown error"

\* The errors of the runs, to match against.
KnownErrors ==
    {errTest, errTest2, serviceError, tryAgain, erasedError, ErrUnknown,
     ErrBadCatch}

\* What C9 says of the error e propagated for Catch(E, P).
ProblemWraps(e, E, P) ==
    /\ ErrorText(e) = Sprint(P) \o ": " \o ErrorText(E)
    /\ Is(e, E)
    /\ (IsError(P) => \A x \in KnownErrors : Is(P, x) => Is(e, x))
    /\ (P = tryAgain /\ E = errTest
            => ErrorText(e) = "service error: try again later: test-error")
    /\ (P = IntV(456) /\ E = errTest => ErrorText(e) = "456: test-error")

\* C9: Catch(E, P) with E a non-nil error and P given raises a CatError
\* around an error with text "<P>: <E>" that matches E and, when P is an
\* error, P and every error P matches; a Recover with no annotation stores
\* that error.
C9_ErrorWithProblem ==
    /\ (IsCatchEv /\ IsError(ev.cond) /\ ev.problem # Nil
            /\ (ev.op = "ctx.Catch" => ~tokens[ev.tok].recoverCalled))
        => /\ panicking[ev.th].k = "cat"
           /\ ProblemWraps(Unwrap(panicking[ev.th]), ev.cond, ev.problem)
    /\ (IsRecoverEv /\ ev.cause.k = "catch" /\ IsError(ev.cause.cond)
            /\ ev.cause.problem # Nil /\ ev.chain = <<>> /\ ev.rerr # 0)
        => ProblemWraps(slots[ev.rerr], ev.cause.cond, ev.cause.problem)

C9_Witness ==
    /\ IsRecoverEv
    /\ ev.cause = CatchCause("catch", errTest, tryAgain)
    /\ ev.chain = <<>>
    /\ ev.rerr # 0
    /\ ErrorText(slots[ev.rerr]) = "service error: try again later: test-error"
    /\ Is(slots[ev.rerr], serviceError)
    /\ Is(slots[ev.rerr], errTest)

AllDescriptions(chain) == \A i \in 1..Len(chain) : chain[i].k = "str"
AllTransforms(chain) ==
    \A i \in 1..Len(chain) :
        chain[i].k = "fn" /\ chain[i].text \in {"keep", "wrapThird", "erase"}

RECURSIVE DescribedText(_, _)
\* "dn: ...: d1: t" for the descriptions <<d1, ..., dn>>.
DescribedText(chain, t) ==
    IF chain = <<>> THEN t
    ELSE chain[Len(chain)].text \o ": "
            \o DescribedText(SubSeq(chain, 1, Len(chain) - 1), t)

RECURSIVE Composed(_, _)
\* C(B(A(e))) for the transforms <<A, B, C>>.
Composed(chain, e) ==
    IF chain = <<>> THEN e
    ELSE Annotator(chain[Len(chain)],
                   Composed(SubSeq(chain, 1, Len(chain) - 1), e), <<>>).err

\* The error the chain of the Recover call in ev started from.
ChainInput == IF ev.r # NoPanic THEN Captured(ev.r) ELSE ev.start

\* C10: the steps of a chain are applied first to last, each to the result
\* of the one before: descriptions d1..dn over an error with text t give
\* the text "dn: ...: d1: t", transforms A, B, C over E give C(B(A(E))).
C10_ChainOrder ==
    (IsRecoverEv /\ ~ev.consumed /\ ev.rerr # 0 /\ ChainInput # Nil) =>
        /\ AllDescriptions(ev.chain)
            => ErrorText(slots[ev.rerr])
                = DescribedText(ev.chain, ErrorText(ChainInput))
        /\ AllTransforms(ev.chain)
            => slots[ev.rerr] = Composed(ev.chain, ChainInput)
        /\ (ev.chain = <<StrV("first"), StrV("second")>>
                /\ ErrorText(ChainInput) = "problem")
            => ErrorText(slots[ev.rerr]) = "second: first: problem"

C10_Witness ==
    /\ IsRecoverEv
    /\ ev.chain = <<StrV("first"), StrV("second"), StrV("first")>>
    /\ ev.cause = CatchCause("catch", BoolV(TRUE), StrV("problem"))
    /\ ev.rerr # 0
    /\ ErrorText(slots[ev.rerr]) = "first: second: first: problem"


\* The first step of the chain that is a transform returning nil, 0 if none.
FirstClear(chain) ==
    IF \E i \in 1..Len(chain) : chain[i] = Fn("clear")
    THEN CHOOSE i \in 1..Len(chain) :
            /\ chain[i] = Fn("clear")
            /\ \A j \in 1..(i - 1) : chain[j] # Fn("clear")
    ELSE 0

\* C11: when a transform of the chain returns nil, that step is the last
\* one to run, whatever the kind of the steps after it, and the error
\* variable ends nil, even when it held an error before Recover ran.
C11_NilHaltsChain ==
    (IsRecoverEv /\ ~ev.consumed /\ ChainInput # Nil
        /\ NonAborting(ev.chain) /\ FirstClear(ev.chain) # 0)
        => /\ ev.applied = [i \in 1..FirstClear(ev.chain) |-> i]
           /\ (ev.rerr # 0 => slots[ev.rerr] = Nil)

C11_Witness ==
    /\ ev.op = "Recover"
    /\ ev.r = NoPanic
    /\ ev.start = errTest
    /\ ev.chain = <<StrV("first"), Fn("clear"), Fn("wrapThird")>>
    /\ ev.applied = <<1, 2>>
    /\ ev.rerr # 0
    /\ slots[ev.rerr] = Nil


\* C12: with no panic in flight the chain starts from the value the error
\* variable holds (nil: nothing is annotated; an error: it is annotated
\* again and written back); with a panic in flight it starts from the
\* captured panic, and the value the variable held is gone.
C12_ChainInput ==
    (IsRecoverEv /\ ~ev.consumed /\ ev.rerr # 0
        /\ ev.chain \in {<<>>, <<IntV(123)>>})
        => LET out == slots[ev.rerr]
               in == IF ev.r = NoPanic THEN ev.start ELSE Captured(ev.r)
           IN
           /\ ev.chain = <<>> => out = in
           /\ (ev.chain # <<>> /\ in = Nil) => out = Nil
           /\ (ev.chain # <<>> /\ in # Nil)
                => /\ ErrorText(out) = "123: " \o ErrorText(in)
                   /\ Is(out, in)
           /\ (ev.r # NoPanic /\ in # Nil)
                => out = RunChain(Captured(ev.r), ev.chain, 1, <<>>,
                                  tokens).err

C12_Witness ==
    /\ ev.op = "Recover"
    /\ ev.r = NoPanic
    /\ ev.start = errTest
    /\ ev.chain = <<IntV(123)>>
    /\ ev.rerr # 0
    /\ ErrorText(slots[ev.rerr]) = "123: test-error"

\* The other case of C12: a panic intercepted over a variable that held an
\* error.
C12_WitnessDiscard ==
    /\ ev.op = "Recover"
    /\ ev.r = StrV("handler fault")
    /\ ev.start = errTest
    /\ ev.rerr # 0
    /\ ErrorText(slots[ev.rerr]) = "handler fault"


\* C13: a panic not raised by Catch whose value is not an error is stored
\* as an error with the text of the value, annotated as the error of
\* Catch(true, value) is; one whose value is an error other than a CatError
\* is captured as that error itself.
C13_ForeignPanic ==
    (IsRecoverEv /\ ev.cause.k = "foreign" /\ ~ev.consumed /\ ev.rerr # 0)
        => LET out == slots[ev.rerr] IN
           /\ (ev.chain = <<>> /\ IsError(ev.r)) => out = ev.r
           /\ (ev.chain = <<>> /\ ~IsError(ev.r))
                => /\ IsError(out)
                   /\ out.subs = <<>>
                   /\ ErrorText(out) = Sprint(ev.r)
           /\ (ev.chain = <<>> /\ ev.r = StrV("test error"))
                => ErrorText(out) = "test error"
           /\ (ev.chain = <<>> /\ ev.r = IntV(7)) => ErrorText(out) = "7"
           /\ ~IsError(ev.r)
                => out = RunChain(Captured(Catch(BoolV(TRUE), ev.r)),
                                  ev.chain, 1, <<>>, tokens).err
           /\ IsError(ev.r)
                => out = RunChain(ev.r, ev.chain, 1, <<>>, tokens).err

C13_Witness ==
    /\ ev.op = "Recover"
    /\ ev.cause.k = "foreign"
    /\ ev.r = IntV(7)
    /\ ev.chain = <<StrV("first")>>
    /\ ev.rerr # 0
    /\ ErrorText(slots[ev.rerr]) = "first: 7"


\* C14: a Recover with an error variable that intercepts a panic (raised by
\* Catch or not) and whose chain raises nothing and has no transform
\* returning nil leaves a non-nil error in the variable.
C14_NeverDropped ==
    (IsRecoverEv /\ ev.r # NoPanic /\ ev.cause.k \in {"catch", "foreign"}
        /\ ~ev.consumed /\ ev.rerr # 0
        /\ NonAborting(ev.chain) /\ FirstClear(ev.chain) = 0)
        => slots[ev.rerr] # Nil


C16_GoDeliversGuardResult ==
    /\ \A w \in Workers :
        chans[w].recv = "got" => chans[w].val = result[w]
    /\ ev.op = "send" => ev.val = result[ev.th]
    /\ (ev.op = "GuardExit" /\ ev.th \in Workers
            /\ ev.cause = CatchCause("catch", BoolV(TRUE), StrV("whoops"))
            /\ ev.chain = <<StrV("test")>>)
        => ErrorText(result[ev.th]) = "test: whoops"
    /\ (ev.op = "GuardExit" /\ ev.th \in Workers /\ ev.r = NoPanic
            /\ ev.start = Nil)
        => result[ev.th] = Nil

C16_Witness ==
    /\ ev.op = "send"
    /\ chans[ev.th].recv = "got"
    /\ ErrorText(chans[ev.th].val) = "test: whoops"

\* C17: Go returns without waiting, and the goroutine it started never
\* waits for another goroutine: when it reaches the send, the send takes
\* place.
C17_OnlyReceiveBlocks ==
    /\ ev.op = "Go" => Running("main") /\ ~Receiving("main")
    /\ \A w \in Workers : AtSend(w) => chans[w].recv = "waiting"


\* C18: a panic raised under two boundaries is stopped by the inner one, in
\* the innermost function being left: the enclosing function, its pending
\* deferred Recover and its error variable stay as they were, no panic is
\* in flight afterwards, and the enclosing function goes on running when
\* the inner one has returned.
C18_InnermostIntercepts ==
    [][LET th == ev'.th IN
       /\ (/\ ev'.op \in {"Recover", "GuardExit"}
           /\ ev'.r # NoPanic
           /\ ~ev'.consumed
           /\ NonAborting(ev'.chain)
           /\ Depth(th) = 2
           /\ ev'.rerr # 1)
            => /\ panicking'[th] = NoPanic
               /\ stack'[th][1] = stack[th][1]
               /\ slots'[1] = slots[1]
       /\ (/\ ev'.op \in {"exit", "GuardExit"}
           /\ panicking'[th] = NoPanic
           /\ Depth(th) = 2)
            => /\ Len(stack'[th]) = 1
               /\ ~stack'[th][1].exiting]_vars

\* The inner boundary (Guard) stopped a panic and returned it; the outer
\* function then returned and its deferred Recover ran with nothing in flight.
C18_Witness ==
    /\ ev.op = "Recover"
    /\ ev.target = RefT(1)
    /\ ev.r = NoPanic
    /\ ErrorText(result[ev.th]) = "test error"
    /\ slots[1] = Nil


\* C19: when a step of the chain raises a panic (by Catch or otherwise),
\* the Recover running the chain ends with that panic in flight and leaves
\* its error variable as it found it; the next Recover to run is the one
\* that intercepts it.
C19_ChainPanicPropagates ==
    (IsRecoverEv /\ ~ev.consumed /\ ChainInput # Nil
        /\ ~NonAborting(ev.chain))
        => /\ panicking[ev.th] # NoPanic
           /\ (ev.rerr # 0 => slots[ev.rerr] = ev.start)
           /\ (ev.chain = <<Fn("fault")>>
                => panicking[ev.th] = StrV("handler fault"))
           /\ (ev.chain = <<Fn("keep"), Fn("throw")>>
                => /\ panicking[ev.th] = CatErr(ErrorfV(StrV("handler failed")))
                   /\ ev.applied = <<1, 2>>)

C19_Witness ==
    /\ ev.op = "GuardExit"
    /\ ev.chain = <<Fn("keep"), Fn("throw")>>
    /\ ev.r = StrV("test error")
    /\ ErrorText(panicking[ev.th]) = "handler failed"
    /\ slots[ev.rerr] = Nil
    /\ Depth(ev.th) = 1
    /\ stack[ev.th][1].defers # <<>>


\* C20: in a client that gets its contexts from Guard only and uses them
\* only inside the fn of their Guard call, no misuse panic is ever raised,
\* no Recover runs on a context already marked, and a context is marked
\* exactly when its Guard call has ended, however fn left (return, Catch,
\* panic).
C20_GuardOnlyNoMisuse ==
    /\ \A th \in Threads :
        panicking[th] \notin {MisuseCatch, MisuseRecover}
    /\ IsRecoverEv => ~ev.consumed
    /\ (ev.op = "ctx.Catch" => ~ev.consumed)
    /\ \A t \in 1..Len(tokens) :
        tokens[t].recoverCalled <=> (\A th \in Threads : t \notin OpenTokens(th))

\* The inner of two Guard calls ended by a panic raised through the outer
\* context; the outer context is still unmarked.
C20_Witness ==
    /\ ev.op = "GuardExit"
    /\ ev.target = CtxT(2)
    /\ ev.r # NoPanic
    /\ ev.cause.k = "catch"
    /\ Len(tokens) = 2
    /\ tokens[2].recoverCalled
    /\ ~tokens[1].recoverCalled
    /\ OpenTokens(ev.th) = {1}


\* The chain is made of descriptions and companion errors only.
NoTransforms(chain) ==
    \A i \in 1..Len(chain) : chain[i].k = "str" \/ IsError(chain[i])

\* C21: after a chain of descriptions and companion errors only, the error
\* stored for a Catch matches (errors.Is) the error Catch threw, the
\* condition and (for a condition Catch accepts) the problem when they are
\* errors, and every companion error of the chain: Catch(true, errTest) under the companion errTest2 gives the
\* text "test-error2: test-error" and matches errTest2 and errTest.
C21_UnwrapMatches ==
    (IsRecoverEv /\ ev.cause.k = "catch" /\ ~ev.consumed /\ ev.rerr # 0
        /\ NoTransforms(ev.chain))
        => LET out == slots[ev.rerr] IN
           /\ Is(out, Captured(ev.r))
           /\ IsError(ev.cause.cond) => Is(out, ev.cause.cond)
           /\ (IsError(ev.cause.problem) /\ ~Invalid(ev.cause.cond))
                => Is(out, ev.cause.problem)
           /\ \A i \in 1..Len(ev.chain) :
                IsError(ev.chain[i]) => Is(out, ev.chain[i])
           /\ (ev.cause = CatchCause("catch", BoolV(TRUE), errTest)
                    /\ ev.chain = <<errTest2>>)
                => /\ ErrorText(out) = "test-error2: test-error"
                   /\ Is(out, errTest2)
                   /\ Is(out, errTest)

C21_Witness ==
    /\ ev.op = "Recover"
    /\ ev.cause = CatchCause("catch", BoolV(TRUE), errTest)
    /\ ev.chain = <<errTest2>>
    /\ ev.rerr # 0
    /\ ErrorText(slots[ev.rerr]) = "test-error2: test-error"
    /\ Is(slots[ev.rerr], errTest2)
    /\ Is(slots[ev.rerr], errTest)


\* Guard(fn, chain...) for an fn that only returns ret (r = NoPanic) or only
\* raises the panic r: the panic Guard leaves by, or the error it returns.
GuardOutcome(r, ret, chain) ==
    LET res == Recover(CtxT(1), chain, r,
                       <<IF r = NoPanic THEN ret ELSE Nil>>,
                       <<[errorRef |-> 1, recoverCalled |-> FALSE]>>)
    IN [raised |-> res.raised,
        err |-> IF res.raised = NoPanic THEN res.slots[1] ELSE Nil]

\* How the Guard call that just ended ended.
GuardEnded ==
    [raised |-> panicking[ev.th],
     err |-> IF panicking[ev.th] = NoPanic THEN result[ev.th] ELSE Nil]

\* C22: Guard(fn, chain...) ends the same way (the same error returned, or
\* the same panic of a chain step) when fn returns a non-nil error E as when
\* fn calls Catch(E) with no problem, for every chain.
C22_ReturnedAsThrown ==
    ev.op = "GuardExit" =>
        /\ (ev.r = NoPanic /\ ev.start # Nil)
            => GuardEnded = GuardOutcome(Catch(ev.start, Nil), Nil, ev.chain)
        /\ (ev.cause.k = "catch" /\ IsError(ev.cause.cond)
                /\ ev.cause.problem = Nil)
            => GuardEnded = GuardOutcome(NoPanic, ev.cause.cond, ev.chain)
        /\ \A E \in {errTest2, tryAgain, CatErr(errTest)} :
            GuardOutcome(Catch(E, Nil), Nil, ev.chain)
                = GuardOutcome(NoPanic, E, ev.chain)

C22_Witness ==
    /\ ev.op = "GuardExit"
    /\ ev.r = NoPanic
    /\ ev.start = errTest
    /\ ev.chain = <<StrV("first"), errTest2>>
    /\ ErrorText(result[ev.th]) = "test-error2: first: test-error"
    /\ GuardEnded = GuardOutcome(Catch(errTest, Nil), Nil, ev.chain)


\* The error variables that exist before the step keep their values in it,
\* but perhaps s.
OnlySlotMayChange(s) ==
    \A i \in 1..Len(slots) : i # s => slots'[i] = slots[i]

\* C23: the error variable of a context is written by the package only in
\* the one Recover call that marks the context: ct.Catch (triggering or not,
\* before or after that call), a Recover the context rejects as a duplicate
\* and ct.ErrorRef leave every error variable as it was; a Recover that is
\* not rejected finds the context unmarked, marks it and writes no variable
\* but the context's; and a mark is never taken back, so there is at most
\* one such call per context.
C23_SlotWrittenOnce ==
    [][/\ ev'.op \in {"ctx.Catch", "ErrorRef", "NewContext", "defer", "panic"}
            => slots' = slots
       /\ (ev'.op \in {"Recover", "CallRecover"} /\ ev'.consumed)
            => /\ slots' = slots
               /\ tokens' = tokens
               /\ panicking'[ev'.th] = MisuseRecover
       /\ (ev'.op \in {"Recover", "CallRecover"} /\ ev'.target.k = "ctx"
                /\ ~ev'.consumed)
            => /\ ~tokens[ev'.target.id].recoverCalled
               /\ tokens'[ev'.target.id].recoverCalled
               /\ OnlySlotMayChange(ErrorRef(tokens, ev'.target.id))
       /\ ev'.op = "ErrorRef" => ev'.ref = tokens[ev'.tok].errorRef
       /\ \A t \in 1..Len(tokens) :
            /\ tokens[t].recoverCalled => tokens'[t].recoverCalled
            /\ tokens'[t].errorRef = tokens[t].errorRef]_vars

\* A second deferred Recover on the context was rejected after the first had
\* stored the annotated error: the variable still holds it.
C23_Witness ==
    /\ ev.op = "Recover"
    /\ ev.target = CtxT(1)
    /\ ev.consumed
    /\ tokens[1].errorRef = 1
    /\ ErrorText(slots[1]) = "123: test-error"
    /\ panicking[ev.th] = MisuseRecover


\* C24: a Recover that runs with no panic in flight and with no error
\* variable, or with one that holds nil, calls no step of its chain (a
\* handler that would panic raises nothing), ends with no panic in flight
\* and leaves the variable nil.
C24_NoErrorNoChain ==
    (IsRecoverEv /\ ~ev.consumed /\ ev.r = NoPanic
        /\ (ev.rerr = 0 \/ ev.start = Nil))
        => /\ ev.applied = <<>>
           /\ panicking[ev.th] = NoPanic
           /\ (ev.rerr # 0 => slots[ev.rerr] = Nil)

\* Catch(nil, "problem") returned, the function returned nil, and the
\* deferred Recover ran with a chain whose only step would panic.
C24_Witness ==
    /\ ev.op = "Recover"
    /\ ev.target = RefT(1)
    /\ ev.r = NoPanic
    /\ ev.start = Nil
    /\ ev.chain = <<Fn("fault")>>
    /\ ev.applied = <<>>
    /\ slots[1] = Nil
    /\ panicking[ev.th] = NoPanic


\* Catch acts on the condition: a non-nil error, true, or a value of another
\* type.
Triggers(c) == IsError(c) \/ c = BoolV(TRUE) \/ Invalid(c)

\* C25: a Catch call (free or through a context not yet marked) whose
\* condition is a non-nil error, true or of an invalid type raises a panic
\* whose value is a CatError around a non-nil error; and while a panic
\* raised by Catch is in flight the only steps are deferred Recover calls
\* and functions being left: the function that called Catch runs no
\* further statement.
C25_CatchPayload ==
    [][LET th == ev'.th IN
       /\ (/\ ev'.op \in {"Catch", "ctx.Catch"}
           /\ (ev'.op = "ctx.Catch" => ~ev'.consumed)
           /\ Triggers(ev'.cond))
            => /\ panicking'[th].k = "cat"
               /\ Len(panicking'[th].subs) = 1
               /\ IsError(Unwrap(panicking'[th]))
               /\ Unwrap(panicking'[th]) # Nil
               /\ cause'[th].k = "catch"
               /\ stack' = stack
       /\ (panicking[th] # NoPanic /\ cause[th].k = "catch")
            => /\ ev'.op \in {"Recover", "GuardExit", "exit"}
               /\ Len(stack'[th]) <= Len(stack[th])
               /\ (Len(stack'[th]) = Len(stack[th])
                    => stack'[th][Len(stack'[th])].exiting)]_vars

\* Catch(123, "problem"): the invalid-condition branch raised a CatError
\* around a non-nil error.
C25_Witness ==
    /\ ev.op = "Catch"
    /\ ev.cond = IntV(123)
    /\ ev.problem = StrV("problem")
    /\ panicking[ev.th].k = "cat"
    /\ Is(Unwrap(panicking[ev.th]), ErrBadCatch)
    /\ ~Running(ev.th)


\* C26: when the function handed to Go has ended (by return, by Catch or by
\* a panic of its own), the chain raises nothing and the caller is
\* receiving from the channel, the receive completes, with the error Guard
\* returned in the goroutine.
C26_GoReceiveCompletes ==
    \A w \in Workers :
        (chans[w].recv = "waiting" /\ FnEnded(w))
            ~> (chans[w].recv = "got" /\ chans[w].val = result[w]
                    /\ chans[w].phase = "done")

\* fn returned errTest and the caller, who was receiving, got it.
C26_Witness ==
    /\ ev.op = "send"
    /\ ev.th = "go1"
    /\ chans["go1"].recv = "got"
    /\ chans["go1"].val = errTest
    /\ ~Receiving("main")
    /\ stack["go1"] = <<>>


\* C27: OnRecover reads recoverCalled and sets it in two steps with no
\* lock.  The read changes nothing and passes exactly when the flag is not
\* set at that moment; the assignment sets the flag without testing it
\* again; a goroutine that passed the read never raises the
\* duplicate-Recover panic, and goes on to store in the error variable.  So
\* two goroutines that both read before either assigns both pass, and both
\* write the variable.
C27_CheckThenMark ==
    [][LET w == ev'.th IN
       /\ ev'.op = "race.check"
            => /\ tokens' = tokens
               /\ slots' = slots
               /\ (rec'[w].raised = MisuseRecover
                    <=> tokens[ev'.tok].recoverCalled)
               /\ (~tokens[ev'.tok].recoverCalled => rec'[w].pc = "mark")
       /\ ev'.op = "race.mark"
            => /\ tokens'[ev'.tok].recoverCalled
               /\ rec'[w].raised = NoPanic
               /\ rec'[w].pc = "capture"
       /\ \A x \in Workers :
            rec[x].pc \in {"mark", "capture", "store"}
                => rec'[x].raised # MisuseRecover
       /\ ev'.op = "race.store"
            => /\ rec'[w].stored
               /\ slots'[ErrorRef(tokens, ev'.tok)] \in StoreOutcomes(w)]_vars

\* Both goroutines ran Recover on the one context, neither raised the
\* duplicate-Recover panic, both stored, and the variable holds what the
\* second store put there.
C27_Witness ==
    /\ \A w \in Workers :
        /\ rec[w].pc = "done"
        /\ rec[w].tok = 1
        /\ rec[w].raised = NoPanic
        /\ rec[w].stored
    /\ rec["go1"].val = errTest
    /\ rec["go2"].val = errTest2
    /\ ev.op = "race.store"
    /\ ev.th = "go1"
    /\ slots[1] = errTest


\* The chain is one handler that calls Catch through context t.
CallsCatchOn(chain, t) ==
    chain \in {<<FnCtx("ctxThrow", t)>>, <<FnCtx("ctxCheck", t)>>}

\* C28: the context is marked before the panic is intercepted and before
\* the chain runs: a handler of the chain that calls Catch through the
\* context of the Recover running it gets the "Catch was called after
\* recovery" panic, with a condition that triggers and with nil alike.
\* Recover ends with that panic in flight (not with a CatError) and its
\* error variable as it was.
C28_CatchInOwnChain ==
    (IsRecoverEv /\ ev.target.k = "ctx" /\ ~ev.consumed
        /\ CallsCatchOn(ev.chain, ev.target.id))
        => /\ tokens[ev.target.id].recoverCalled
           /\ ChainInput # Nil
                => /\ ev.applied = <<1>>
                   /\ panicking[ev.th] = MisuseCatch
                   /\ cause[ev.th].k = "misuse"
                   /\ (ev.rerr # 0 => slots[ev.rerr] = ev.start)
           /\ ChainInput = Nil
                => /\ ev.applied = <<>>
                   /\ panicking[ev.th] = NoPanic

\* The handler called ct.Catch(nil, ...) while the deferred Recover(ct, ...)
\* was annotating an error the function had returned.
C28_Witness ==
    /\ ev.op = "Recover"
    /\ ev.target = CtxT(1)
    /\ ev.chain = <<FnCtx("ctxCheck", 1)>>
    /\ ev.r = NoPanic
    /\ ev.start = errTest
    /\ panicking[ev.th] = MisuseCatch
    /\ slots[1] = errTest


\* No step of the chain is a handler that can raise a panic.
RaisesNothing(chain) ==
    \A i \in 1..Len(chain) : chain[i].k # "fn" \/ chain[i] = Fn("clear")

\* C29: a Recover handed a target that is not a *error, a Context or nil
\* raises no panic of its own and does what Recover(nil, ...) does from the
\* same state: it intercepts the panic in flight and runs the chain on it,
\* marks no context and writes no error variable.
C29_OtherTarget ==
    [][LET th == ev'.th
           asNil == Recover(NilT, ev'.chain, panicking[th], slots, tokens)
       IN
       (ev'.op \in {"Recover", "CallRecover"} /\ ev'.target = OtherT)
        => /\ slots' = slots
           /\ tokens' = tokens
           /\ ev'.rerr = 0
           /\ panicking'[th] = asNil.raised
           /\ ev'.applied = asNil.applied
           /\ (RaisesNothing(ev'.chain) => panicking'[th] = NoPanic)
           /\ (panicking[th] # NoPanic /\ Captured(panicking[th]) # Nil
                    /\ ev'.chain # <<>>)
                => ev'.applied # <<>>]_vars

\* A panic was intercepted by Recover(other, 123) while a context was
\* there, unmarked, over the error variable: the chain ran, the context and
\* the variable are as they were.
C29_Witness ==
    /\ ev.op = "Recover"
    /\ ev.target = OtherT
    /\ ev.r = StrV("test error")
    /\ ev.chain = <<IntV(123)>>
    /\ ev.applied = <<1>>
    /\ panicking[ev.th] = NoPanic
    /\ Len(tokens) = 1
    /\ tokens[1] = [errorRef |-> 1, recoverCalled |-> FALSE]
    /\ slots[1] = Nil

====
